---- MODULE Spec2Model ----
(***************************************************************************)
(* A model of the resume parser: the two pipeline variants main.py and     *)
(* nlp_parser.py.  Texts are sequences of one-character strings, so that   *)
(* the regular expressions, split, strip, join, upper and title of the     *)
(* source are modelled by what they do to the characters.                  *)
(***************************************************************************)
EXTENDS Naturals, Integers, Sequences, FiniteSets, TLC

VARIABLES
    pc,           \* position of the operation under study
    variant,      \* "main" (main.py) or "nlp" (nlp_parser.py)
    text,         \* the text (or block) handed to the operation
    out,          \* what the operation returned
    pages,        \* the pages of the open PDF: the native text and the OCR text of each
    pageIdx,      \* the page extract_text_from_pdf is at
    calls,        \* the collaborator calls made so far, in order
    listing,      \* os.listdir(folder_path)
    fileIdx,      \* the folder entry parse_resumes_in_folder is at
    parsed_data,  \* the dict parse_resumes_in_folder builds
    SKILLS_DB,    \* the skill vocabulary loaded at import
    scores        \* the similarity the encoder gives an (n-gram token, skill) pair

vars == <<pc, variant, text, out, pages, pageIdx, calls, listing, fileIdx,
          parsed_data, SKILLS_DB, scores>>

----------------------------------------------------------------------------
(* Strings as sequences of characters *)

Chars(s) == [i \in 1..Len(s) |-> SubSeq(s, i, i)]

Range(f) == {f[i] : i \in DOMAIN f}

UpperLetters == Chars("ABCDEFGHIJKLMNOPQRSTUVWXYZ")

LowerLetters == Chars("abcdefghijklmnopqrstuvwxyz")

Digits == Chars("0123456789")

UpperSet == Range(UpperLetters)

LowerSet == Range(LowerLetters)

DigitSet == Range(Digits)

\* \s of the regular expressions and the characters str.strip() removes
SpaceSet == {" ", "\t", "\n", "\r"}

IsUpper(c) == c \in UpperSet

IsLower(c) == c \in LowerSet

IsLetter(c) == IsUpper(c) \/ IsLower(c)

IsDigit(c) == c \in DigitSet

IsSpace(c) == c \in SpaceSet

IndexIn(seq, c) == CHOOSE i \in 1..Len(seq) : seq[i] = c

UpperChar(c) == IF IsLower(c) THEN UpperLetters[IndexIn(LowerLetters, c)] ELSE c

LowerChar(c) == IF IsUpper(c) THEN LowerLetters[IndexIn(UpperLetters, c)] ELSE c

\* str.upper()
Upper(s) == [i \in 1..Len(s) |-> UpperChar(s[i])]

\* str.lower()
Lower(s) == [i \in 1..Len(s) |-> LowerChar(s[i])]

RECURSIVE LStripFrom(_, _, _)
LStripFrom(s, i, drop) ==
    IF i <= Len(s) /\ s[i] \in drop THEN LStripFrom(s, i + 1, drop) ELSE i

RECURSIVE RStripFrom(_, _, _)
RStripFrom(s, j, drop) ==
    IF j >= 1 /\ s[j] \in drop THEN RStripFrom(s, j - 1, drop) ELSE j

\* str.strip(chars): the characters of `drop` removed from both ends
StripChars(s, drop) ==
    LET i == LStripFrom(s, 1, drop)
        j == RStripFrom(s, Len(s), drop)
    IN  IF i > j THEN <<>> ELSE SubSeq(s, i, j)

\* str.strip()
Strip(s) == StripChars(s, SpaceSet)

\* the first position from i on that holds sep, Len(s) + 1 if none does
RECURSIVE NextSep(_, _, _)
NextSep(s, sep, i) ==
    IF i > Len(s) \/ s[i] = sep THEN i ELSE NextSep(s, sep, i + 1)

RECURSIVE SplitFrom(_, _, _)
SplitFrom(s, sep, i) ==
    LET j == NextSep(s, sep, i)
    IN  IF j > Len(s) THEN <<SubSeq(s, i, Len(s))>>
        ELSE <<SubSeq(s, i, j - 1)>> \o SplitFrom(s, sep, j + 1)

\* str.split(sep) for a one-character separator
Split(s, sep) == SplitFrom(s, sep, 1)

RECURSIVE Join(_, _)
\* sep.join(parts)
Join(parts, sep) ==
    IF Len(parts) = 0 THEN <<>>
    ELSE IF Len(parts) = 1 THEN parts[1]
    ELSE parts[1] \o sep \o Join(Tail(parts), sep)

\* whether `sub` occurs in s at position p
OccursAt(s, sub, p) ==
    /\ p + Len(sub) - 1 <= Len(s)
    /\ \A k \in 1..Len(sub) : s[p + k - 1] = sub[k]

\* `sub in s`
Contains(s, sub) == \E p \in 1..(Len(s) + 1) : OccursAt(s, sub, p)

\* the greatest e >= q - 1 such that every character of s[q..e] is in class
RECURSIVE RunEnd(_, _, _)
RunEnd(s, q, class) ==
    IF q <= Len(s) /\ s[q] \in class THEN RunEnd(s, q + 1, class) ELSE q - 1

Max(S) == CHOOSE x \in S : \A y \in S : y <= x

\* the sequences of at most n elements of S
SeqsUpTo(S, n) == UNION {[1..k -> S] : k \in 0..n}

\* the texts made of at most n of the given pieces, joined by sep
Pieced(pieces, sep, n) == {Join(q, sep) : q \in SeqsUpTo(pieces, n)}

----------------------------------------------------------------------------
(* nlp_parser.py: the section splitter *)

\* the class [A-Z\s/&]
HeadingClass == UpperSet \cup SpaceSet \cup {"/", "&"}

\* MULTILINE ^ at p
AtLineStart(s, p) == p = 1 \/ s[p - 1] = "\n"

\* MULTILINE $ after position k
AtLineEnd(s, k) == k = Len(s) \/ s[k + 1] = "\n"

\* ^(?:[A-Z][A-Z\s/&]+)$ tried at p: the last position of the match, 0 if none.
\* The class holds the newline, so the greedy run crosses lines and backs off
\* to the last end of line it covers.
HeadingMatchEnd(s, p) ==
    IF ~(AtLineStart(s, p) /\ IsUpper(s[p])) THEN 0
    ELSE LET e == RunEnd(s, p + 1, HeadingClass)
             ends == {k \in (p + 1)..e : AtLineEnd(s, k)}
         IN  IF ends = {} THEN 0 ELSE Max(ends)

RECURSIVE FindHeadingsFrom(_, _, _)
FindHeadingsFrom(s, p, acc) ==
    IF p > Len(s) THEN acc
    ELSE LET e == HeadingMatchEnd(s, p)
         IN  IF e > 0 THEN FindHeadingsFrom(s, e + 1, Append(acc, SubSeq(s, p, e)))
             ELSE FindHeadingsFrom(s, p + 1, acc)

\* re.findall(r"^(?:[A-Z][A-Z\s/&]+)$", text, flags=re.MULTILINE)
FindHeadings(s) == FindHeadingsFrom(s, 1, <<>>)

END_OF_TEXT == Chars("END_OF_TEXT")

\* sections[key] = value
DictPut(d, key, value) ==
    [k \in (DOMAIN d) \cup {key} |-> IF k = key THEN value ELSE d[k]]

EmptyDict == [k \in {} |-> <<>>]

\* The loop of split_sections from line i on.  current_heading None is the
\* empty sequence: the code only tests it for truth, and a heading is never "".
RECURSIVE SplitLoop(_, _, _, _, _, _)
SplitLoop(lines, headings, i, sections, current_heading, buffer) ==
    IF i > Len(lines) THEN sections
    ELSE LET line == lines[i]
             norm == Upper(Strip(line))
         IN  IF norm \in Range(headings) \/ line = END_OF_TEXT
             THEN SplitLoop(lines, headings, i + 1,
                      IF Len(current_heading) > 0
                      THEN DictPut(sections, current_heading,
                                   Strip(Join(buffer, <<"\n">>)))
                      ELSE sections,
                      IF line /= END_OF_TEXT THEN norm ELSE <<>>,
                      IF Len(current_heading) > 0 THEN <<>> ELSE buffer)
             ELSE SplitLoop(lines, headings, i + 1, sections, current_heading,
                            Append(buffer, line))

split_sections(s) ==
    SplitLoop(Append(Split(s, "\n"), END_OF_TEXT), FindHeadings(s), 1,
              EmptyDict, <<>>, <<>>)

----------------------------------------------------------------------------
(* Bounds and inputs *)

MaxLines == 4

SegLines ==
    {Chars("EXPERIENCE"), Chars("EDUCATION"), Chars("education"),
     Chars("Jane Doe"), Chars("built X"), <<>>}

SegTexts == Pieced(SegLines, <<"\n">>, MaxLines)

\* the parts of the state an operation does not use
NoPdf == pages = <<>> /\ pageIdx = 0 /\ calls = <<>>

NoFolder == listing = <<>> /\ fileIdx = 0 /\ parsed_data = EmptyDict

NoSkills == SKILLS_DB = <<>> /\ scores = <<>>

----------------------------------------------------------------------------
(* split_sections applied to a text *)

InitSegment ==
    /\ pc = "start"
    /\ variant = "nlp"
    /\ text \in SegTexts
    /\ out = <<>>
    /\ NoPdf /\ NoFolder /\ NoSkills

Segment ==
    /\ pc = "start"
    /\ out' = split_sections(text)
    /\ pc' = "done"
    /\ UNCHANGED <<variant, text, pages, pageIdx, calls, listing, fileIdx,
                   parsed_data, SKILLS_DB, scores>>

NextSegment == Segment

SpecSegment == InitSegment /\ [][NextSegment]_vars

Min(S) == CHOOSE x \in S : \A y \in S : x <= y

\* the lines of the text split_sections takes for headings
DetectedLines(s) ==
    LET lines == Split(s, "\n")
    IN  {i \in 1..Len(lines) : Upper(Strip(lines[i])) \in Range(FindHeadings(s))}

\* the lines strictly between heading line i and the next heading line
LinesAfterHeading(s, i) ==
    LET lines == Split(s, "\n")
        next == Min({j \in DetectedLines(s) : j > i} \cup {Len(lines) + 1})
    IN  Strip(Join(SubSeq(lines, i + 1, next - 1), <<"\n">>))

\* C1: split_sections maps each detected heading to exactly the lines strictly
\* between that heading line (its last occurrence, for a repeated heading) and
\* the next heading line or the end of the text, so that the lines before the
\* first heading are in no section.
C1_SectionsHoldOnlyTheirLines ==
    pc = "done" =>
        LET lines == Split(text, "\n")
            H == DetectedLines(text)
            key(i) == Upper(Strip(lines[i]))
        IN  /\ DOMAIN out = {key(i) : i \in H}
            /\ \A i \in H :
                  (\A j \in H : j > i => key(j) /= key(i))
                      => out[key(i)] = LinesAfterHeading(text, i)

\* a line that is a heading by itself: [A-Z][A-Z /&]+ and nothing around it
IsHeadingText(line) ==
    /\ Len(line) >= 2
    /\ IsUpper(line[1])
    /\ \A k \in 2..Len(line) : line[k] \in (HeadingClass \ {"\n", "\r", "\t"})
    /\ Strip(line) = line

\* C2: when a heading line is immediately followed by another heading line,
\* the first heading is a key whose value is the empty string and the second
\* heading is a key too (the first heading occurring once in the text).
C2_EmptySectionIsKept ==
    pc = "done" =>
        LET lines == Split(text, "\n")
        IN  \A i \in 1..(Len(lines) - 1) :
                ( /\ IsHeadingText(lines[i])
                  /\ IsHeadingText(lines[i + 1])
                  /\ \A j \in 1..Len(lines) : j /= i => lines[j] /= lines[i] )
                => /\ lines[i] \in DOMAIN out
                   /\ out[lines[i]] = <<>>
                   /\ lines[i + 1] \in DOMAIN out

----------------------------------------------------------------------------
(* Normalization: clean_text of either file, and the step parse_resume applies *)

\* re.sub(class+, " ", s): every maximal run of characters of class becomes one space
RECURSIVE CollapseFrom(_, _, _)
CollapseFrom(s, class, i) ==
    IF i > Len(s) THEN <<>>
    ELSE IF s[i] \in class
         THEN <<" ">> \o CollapseFrom(s, class, RunEnd(s, i, class) + 1)
         ELSE <<s[i]>> \o CollapseFrom(s, class, i + 1)

\* main.py clean_text: re.sub(r"\s+", " ", text).strip()
clean_text_main(s) == Strip(CollapseFrom(s, SpaceSet, 1))

\* nlp_parser.py clean_text: re.sub(r"[ \t]+", " ", text).strip()
clean_text_nlp(s) == Strip(CollapseFrom(s, {" ", "\t"}, 1))

clean_text(v, s) == IF v = "main" THEN clean_text_main(s) ELSE clean_text_nlp(s)

\* [l.strip() for l in lines if l.strip() != ""]
RECURSIVE StrippedNonEmpty(_)
StrippedNonEmpty(lines) ==
    IF Len(lines) = 0 THEN <<>>
    ELSE IF Strip(Head(lines)) /= <<>>
         THEN <<Strip(Head(lines))>> \o StrippedNonEmpty(Tail(lines))
         ELSE StrippedNonEmpty(Tail(lines))

\* the filter tests the line as it is, not the stripped line
RECURSIVE StrippedNonEmptyRaw(_)
StrippedNonEmptyRaw(lines) ==
    IF Len(lines) = 0 THEN <<>>
    ELSE IF Head(lines) /= <<>>
         THEN <<Strip(Head(lines))>> \o StrippedNonEmptyRaw(Tail(lines))
         ELSE StrippedNonEmptyRaw(Tail(lines))

NonEmptyLinesMutant(s) == Join(StrippedNonEmptyRaw(Split(s, "\n")), <<"\n">>)

\* nlp_parser.py parse_resume:
\* "\n".join([l.strip() for l in text.split("\n") if l.strip() != ""])
NonEmptyLines(s) == Join(StrippedNonEmpty(Split(s, "\n")), <<"\n">>)

\* the normalization parse_resume applies before the extractors run
Normalize(v, s) == IF v = "main" THEN clean_text_main(s) ELSE NonEmptyLines(s)

MaxNormChars == 5

NormTexts == Pieced({<<"a">>, <<" ">>, <<"\t">>, <<"\n">>}, <<>>, MaxNormChars)

InitNormalize ==
    /\ pc = "start"
    /\ variant \in {"main", "nlp"}
    /\ text \in NormTexts
    /\ out = <<>>
    /\ NoPdf /\ NoFolder /\ NoSkills

\* clean_text(text)
CleanText ==
    /\ pc = "start"
    /\ out' = clean_text(variant, text)
    /\ pc' = "cleaned"
    /\ UNCHANGED <<variant, text, pages, pageIdx, calls, listing, fileIdx,
                   parsed_data, SKILLS_DB, scores>>

\* clean_text applied to its own result
CleanTextAgain ==
    /\ pc = "cleaned"
    /\ out' = clean_text(variant, out)
    /\ pc' = "cleaned twice"
    /\ UNCHANGED <<variant, text, pages, pageIdx, calls, listing, fileIdx,
                   parsed_data, SKILLS_DB, scores>>

\* the normalization step of parse_resume
NormalizeText ==
    /\ pc = "start"
    /\ out' = Normalize(variant, text)
    /\ pc' = "normalized"
    /\ UNCHANGED <<variant, text, pages, pageIdx, calls, listing, fileIdx,
                   parsed_data, SKILLS_DB, scores>>

\* the normalization step applied to its own result
NormalizeAgain ==
    /\ pc = "normalized"
    /\ out' = Normalize(variant, out)
    /\ pc' = "normalized twice"
    /\ UNCHANGED <<variant, text, pages, pageIdx, calls, listing, fileIdx,
                   parsed_data, SKILLS_DB, scores>>

NextNormalize == CleanText \/ CleanTextAgain \/ NormalizeText \/ NormalizeAgain

SpecNormalize == InitNormalize /\ [][NextNormalize]_vars

\* the lines of a text, none for the empty text
LinesOf(s) == IF s = <<>> THEN <<>> ELSE Split(s, "\n")

\* a line without its horizontal whitespace
Squeezed(line) == SelectSeq(line, LAMBDA c : c \notin {" ", "\t", "\r"})

\* C4: in every pipeline variant the normalized text has exactly as many lines
\* as the raw text has non-empty lines, in the same order: empty lines go and
\* the line break between two consecutive non-empty lines stays.
C4_LineBreaksArePreserved ==
    pc = "normalized" =>
        LET kept == StrippedNonEmpty(Split(text, "\n"))
            got == LinesOf(out)
        IN  /\ Len(got) = Len(kept)
            /\ \A k \in 1..Len(got) : Squeezed(got[k]) = Squeezed(kept[k])

\* C5: normalization is idempotent: clean_text of either file, and the
\* normalization step of parse_resume, return an already normalized text
\* unchanged.
C5_NormalizeIsIdempotent ==
    [][(pc \in {"cleaned", "normalized"}) => out' = out]_vars

\* a raw text that was not normal already has been normalized twice
C5_Witness ==
    /\ pc \in {"cleaned twice", "normalized twice"}
    /\ out /= text
    /\ out /= <<>>

----------------------------------------------------------------------------
(* Text recovery: extract_text_from_pdf, one page after another *)

\* page.to_image(resolution=300)
OcrResolution == 300

\* a page: what page.extract_text() returns (None, "" or the native text) and
\* what pytesseract.image_to_string returns for its rendered image
Page(is_none, native, ocr) == [is_none |-> is_none, native |-> native, ocr |-> ocr]

\* the test is `is not None`: an empty string counts as text
HasNativeTextMutant(page) == ~page.is_none

\* `if page_text:` - neither None nor the empty string
HasNativeText(page) == ~page.is_none /\ page.native /= <<>>

\* main.py appends the page's text as it is, nlp_parser.py adds "\n"
PageSuffix(v) == IF v = "main" THEN <<>> ELSE <<"\n">>

MaxPages == 3

PageKinds ==
    {Page(TRUE, <<>>, o) : o \in {<<>>, Chars("O")}}
        \cup {Page(FALSE, n, o) : n \in {<<>>, Chars("T")}, o \in {<<>>, Chars("O")}}

InitPdf ==
    /\ pc = "start"
    /\ variant \in {"main", "nlp"}
    /\ pages \in SeqsUpTo(PageKinds, MaxPages)
    /\ pageIdx = 0
    /\ calls = <<>>
    /\ text = <<>>
    /\ out = <<>>
    /\ NoFolder /\ NoSkills

\* text = ""; with pdfplumber.open(path) as pdf: for page in pdf.pages:
OpenPdf ==
    /\ pc = "start"
    /\ text' = <<>>
    /\ pageIdx' = 1
    /\ pc' = "page"
    /\ UNCHANGED <<variant, out, pages, calls, listing, fileIdx, parsed_data,
                   SKILLS_DB, scores>>

\* page_text = page.extract_text(); if page_text: text += page_text
ExtractPageText ==
    /\ pc = "page"
    /\ pageIdx <= Len(pages)
    /\ calls' = Append(calls, <<"extract_text", pageIdx, 0>>)
    /\ IF HasNativeText(pages[pageIdx])
       THEN /\ text' = text \o pages[pageIdx].native \o PageSuffix(variant)
            /\ pageIdx' = pageIdx + 1
            /\ pc' = "page"
       ELSE /\ pc' = "render"
            /\ UNCHANGED <<text, pageIdx>>
    /\ UNCHANGED <<variant, out, pages, listing, fileIdx, parsed_data,
                   SKILLS_DB, scores>>

\* page_image = page.to_image(resolution=300).original
RenderPage ==
    /\ pc = "render"
    /\ calls' = Append(calls, <<"to_image", pageIdx, OcrResolution>>)
    /\ pc' = "ocr"
    /\ UNCHANGED <<variant, text, out, pages, pageIdx, listing, fileIdx,
                   parsed_data, SKILLS_DB, scores>>

\* text += pytesseract.image_to_string(page_image)
OcrPage ==
    /\ pc = "ocr"
    /\ calls' = Append(calls, <<"image_to_string", pageIdx, 0>>)
    /\ text' = text \o pages[pageIdx].ocr \o PageSuffix(variant)
    /\ pageIdx' = pageIdx + 1
    /\ pc' = "page"
    /\ UNCHANGED <<variant, out, pages, listing, fileIdx, parsed_data,
                   SKILLS_DB, scores>>

\* return text.strip()
ReturnText ==
    /\ pc = "page"
    /\ pageIdx > Len(pages)
    /\ out' = Strip(text)
    /\ pc' = "done"
    /\ UNCHANGED <<variant, text, pages, pageIdx, calls, listing, fileIdx,
                   parsed_data, SKILLS_DB, scores>>

NextPdf == OpenPdf \/ ExtractPageText \/ RenderPage \/ OcrPage \/ ReturnText

SpecPdf == InitPdf /\ [][NextPdf]_vars

\* the pages named by the calls of one kind, in call order
CalledPages(kind) ==
    LET sel == SelectSeq(calls, LAMBDA c : c[1] = kind)
    IN  [k \in 1..Len(sel) |-> sel[k][2]]

\* the pages extract_text_from_pdf is through with
PagesDone ==
    IF pc = "start" THEN {}
    ELSE {i \in 1..Len(pages) : i < pageIdx}

\* the pages whose native text is empty (None or "")
BlankPages == {i \in 1..Len(pages) : pages[i].is_none \/ pages[i].native = <<>>}

\* C6: the pages are visited in document order; each is first asked for its
\* native text, and is rendered at 300 DPI and then OCRed if and only if that
\* text is empty; a document all of whose pages have native text is never OCRed.
C6_OcrOnlyForBlankPages ==
    /\ \A k \in 1..Len(CalledPages("extract_text")) :
          CalledPages("extract_text")[k] = k
    /\ \A j \in 1..Len(calls) :
          /\ calls[j][1] = "to_image" =>
                /\ j > 1
                /\ calls[j - 1] = <<"extract_text", calls[j][2], 0>>
                /\ calls[j][2] \in BlankPages
                /\ calls[j][3] = 300
          /\ calls[j][1] = "image_to_string" =>
                /\ j > 1
                /\ calls[j - 1] = <<"to_image", calls[j][2], 300>>
    /\ \A i \in PagesDone :
          /\ Cardinality({j \in 1..Len(calls) : calls[j] = <<"extract_text", i, 0>>}) = 1
          /\ Cardinality({j \in 1..Len(calls) : calls[j] = <<"image_to_string", i, 0>>})
                = IF i \in BlankPages THEN 1 ELSE 0
    /\ BlankPages = {} =>
          \A j \in 1..Len(calls) : calls[j][1] = "extract_text"

\* a document with a blank page and a page with native text has been recovered
C6_Witness ==
    /\ pc = "done"
    /\ BlankPages /= {}
    /\ \E i \in 1..Len(pages) : i \notin BlankPages
    /\ \E i \in 1..Len(pages) : ~pages[i].is_none /\ pages[i].native = <<>>
    /\ Len(CalledPages("image_to_string")) = Cardinality(BlankPages)

----------------------------------------------------------------------------
(* extract_contact_info *)

\* [\d\-\s]
PhoneClass == DigitSet \cup SpaceSet \cup {"-"}

\* the {9,} of the phone pattern
PhoneMinInner == 9

\* \+?\d[\d\-\s]{9,}\d tried at p: the last position of the match, 0 if none.
\* The greedy run backs off to the last digit with at least `inner` class
\* characters between it and the first digit.
PhoneEndWith(s, p, inner) ==
    LET q == IF s[p] = "+" THEN p + 1 ELSE p
    IN  IF ~(q <= Len(s) /\ IsDigit(s[q])) THEN 0
        ELSE LET e == RunEnd(s, q + 1, PhoneClass)
                 ends == {k \in (q + inner + 1)..e : IsDigit(s[k])}
             IN  IF ends = {} THEN 0 ELSE Max(ends)

\* the quantifier is {8,}
PhoneMatchEndMutant(s, p) == PhoneEndWith(s, p, PhoneMinInner - 1)

PhoneMatchEnd(s, p) == PhoneEndWith(s, p, PhoneMinInner)

\* [a-zA-Z0-9._%+-]
EmailLocalClass ==
    UpperSet \cup LowerSet \cup DigitSet \cup {".", "_", "%", "+", "-"}

\* [a-zA-Z0-9.-]
EmailDomainClass ==
    UpperSet \cup LowerSet \cup DigitSet \cup {".", "-"}

EmailTldClass == UpperSet \cup LowerSet

\* [a-zA-Z0-9._%+-]+@[a-zA-Z0-9.-]+\.[a-zA-Z]{2,} tried at p.  The domain run
\* backs off to its last dot that at least two letters follow.
EmailMatchEnd(s, p) ==
    LET l == RunEnd(s, p, EmailLocalClass)
    IN  IF ~(l >= p /\ l + 1 <= Len(s) /\ s[l + 1] = "@") THEN 0
        ELSE LET d == RunEnd(s, l + 2, EmailDomainClass)
                 dots == {k \in (l + 3)..d :
                             /\ s[k] = "."
                             /\ RunEnd(s, k + 1, EmailTldClass) >= k + 2}
             IN  IF dots = {} THEN 0
                 ELSE RunEnd(s, Max(dots) + 1, EmailTldClass)

\* [^\s] in main.py, [^\s|] in nlp_parser.py
IsUrlChar(v, c) == ~IsSpace(c) /\ (v = "nlp" => c /= "|")

\* the last position of the greatest run of URL characters from q on
RECURSIVE UrlRunEnd(_, _, _)
UrlRunEnd(v, s, q) ==
    IF q <= Len(s) /\ IsUrlChar(v, s[q]) THEN UrlRunEnd(v, s, q + 1) ELSE q - 1

\* prefix, then [^\s|]+, tried at p: the last position of the match, 0 if none
PrefixedRunEnd(v, s, p, prefix) ==
    IF ~OccursAt(s, prefix, p) THEN 0
    ELSE LET e == UrlRunEnd(v, s, p + Len(prefix))
         IN  IF e >= p + Len(prefix) THEN e ELSE 0

\* (https?://[^\s]+) in main.py, (https?://[^\s|]+|www\.[^\s|]+) in nlp_parser.py
LinkMatchEnd(v, s, p) ==
    LET https == PrefixedRunEnd(v, s, p, Chars("https://"))
        http == PrefixedRunEnd(v, s, p, Chars("http://"))
        www == IF v = "nlp" THEN PrefixedRunEnd(v, s, p, Chars("www.")) ELSE 0
    IN  IF https > 0 THEN https ELSE IF http > 0 THEN http ELSE www

\* one of the patterns of the extractors tried at p
MatchEnd(pattern, s, p) ==
    CASE pattern = "phone" -> PhoneMatchEnd(s, p)
      [] pattern = "email" -> EmailMatchEnd(s, p)
      [] pattern = "link main" -> LinkMatchEnd("main", s, p)
      [] pattern = "link nlp" -> LinkMatchEnd("nlp", s, p)

\* re.findall: the matches from left to right, each search resuming where the
\* last match ended; a match is its first and last position
RECURSIVE FindSpans(_, _, _, _)
FindSpans(pattern, s, p, acc) ==
    IF p > Len(s) THEN acc
    ELSE LET e == MatchEnd(pattern, s, p)
         IN  IF e > 0 THEN FindSpans(pattern, s, e + 1, Append(acc, <<p, e>>))
             ELSE FindSpans(pattern, s, p + 1, acc)

SpanTexts(s, spans) == [k \in 1..Len(spans) |-> SubSeq(s, spans[k][1], spans[k][2])]

PhoneSpans(s) == FindSpans("phone", s, 1, <<>>)

\* re.sub(r"\s+", "", p)
RemoveSpaces(s) == SelectSeq(s, LAMBDA c : ~IsSpace(c))

\* main.py returns the matches, nlp_parser.py strips the whitespace of each
extract_contact_info(v, s) ==
    LET emails == SpanTexts(s, FindSpans("email", s, 1, <<>>))
        phones == SpanTexts(s, PhoneSpans(s))
    IN  [email |-> emails,
         phone |-> IF v = "main" THEN phones
                   ELSE [k \in 1..Len(phones) |-> RemoveSpaces(phones[k])]]

MaxPieces == 3

ThePhone == Chars("+1 555-123-4567")

ContactPieces ==
    {ThePhone, Chars("jane.doe@example.com"), Chars("2019 - 2021"),
     Chars("12345"), Chars("-"), Chars(" "), Chars("+"), Chars("x")}

ContactTexts == Pieced(ContactPieces, <<>>, MaxPieces)

InitContacts ==
    /\ pc = "start"
    /\ variant \in {"main", "nlp"}
    /\ text \in ContactTexts
    /\ out = <<>>
    /\ NoPdf /\ NoFolder /\ NoSkills

ExtractContacts ==
    /\ pc = "start"
    /\ out' = extract_contact_info(variant, text)
    /\ pc' = "done"
    /\ UNCHANGED <<variant, text, pages, pageIdx, calls, listing, fileIdx,
                   parsed_data, SKILLS_DB, scores>>

NextContacts == ExtractContacts

SpecContacts == InitContacts /\ [][NextContacts]_vars

DigitsOf(s) == SelectSeq(s, IsDigit)

\* a digit run: an optional "+", then digits with only hyphens and spaces
\* between them, a digit first and a digit last
IsDigitRun(s) ==
    LET b == IF Len(s) > 0 /\ s[1] = "+" THEN 2 ELSE 1
    IN  /\ Len(s) >= b
        /\ IsDigit(s[b]) /\ IsDigit(s[Len(s)])
        /\ \A k \in b..Len(s) : s[k] \in PhoneClass

\* the places where the phone number of the example stands by itself: no
\* digit, hyphen or space follows it
ThePhoneAlone(s) ==
    {p \in 1..Len(s) :
        /\ OccursAt(s, ThePhone, p)
        /\ (p + Len(ThePhone) > Len(s) \/ s[p + Len(ThePhone)] \notin PhoneClass)}

----------------------------------------------------------------------------
(* extract_links *)

\* re.findall of the link pattern
FindLinks(v, s) ==
    SpanTexts(s, FindSpans(IF v = "main" THEN "link main" ELSE "link nlp", s, 1, <<>>))

\* `"linkedin.com" in l` in main.py, `"linkedin.com" in l.lower()` in nlp_parser.py
Mentions(v, l, site) == Contains(IF v = "main" THEN l ELSE Lower(l), site)

\* `other` is list(set(...)): a list without duplicates in no particular
\* order, here the set of its elements
extract_links(v, s) ==
    LET links == FindLinks(v, s)
        linkedin == SelectSeq(links, LAMBDA l : Mentions(v, l, Chars("linkedin.com")))
        github == SelectSeq(links, LAMBDA l : Mentions(v, l, Chars("github.com")))
    IN  [linkedin |-> linkedin,
         github |-> github,
         other |-> (Range(links) \ Range(linkedin)) \ Range(github)]

MaxLinkPieces == 3

LinkPieces ==
    {Chars("https://"), Chars("www."), Chars("linkedin.com"),
     Chars("github.com/"), Chars("LINKEDIN.COM"), Chars(" "), Chars("|")}

LinkTexts == Pieced(LinkPieces, <<>>, MaxLinkPieces)

InitLinks ==
    /\ pc = "start"
    /\ variant \in {"main", "nlp"}
    /\ text \in LinkTexts
    /\ out = <<>>
    /\ NoPdf /\ NoFolder /\ NoSkills

ExtractLinks ==
    /\ pc = "start"
    /\ out' = extract_links(variant, text)
    /\ pc' = "done"
    /\ UNCHANGED <<variant, text, pages, pageIdx, calls, listing, fileIdx,
                   parsed_data, SKILLS_DB, scores>>

NextLinks == ExtractLinks

SpecLinks == InitLinks /\ [][NextLinks]_vars

\* C8: the three collections partition the URLs found: they are pairwise
\* disjoint, their union is the set of found URLs, and `other` has no
\* duplicates (it is a set here).
C8_LinksArePartitioned ==
    pc = "done" =>
        LET L == Range(out.linkedin)
            G == Range(out.github)
        IN  /\ L \cap G = {}
            /\ L \cap out.other = {}
            /\ G \cap out.other = {}
            /\ L \cup G \cup out.other = Range(FindLinks(variant, text))

----------------------------------------------------------------------------
(* extract_skills *)

\* `score > 0.7`, in hundredths
SimilarityThreshold == 70

\* a token of nlp(text)
Token(t, is_stop, is_punct) == [text |-> t, is_stop |-> is_stop, is_punct |-> is_punct]

\* [t.text for t in doc if not t.is_stop and not t.is_punct]
ContentTokens(doc) ==
    LET kept == SelectSeq(doc, LAMBDA t : ~t.is_stop /\ ~t.is_punct)
    IN  [k \in 1..Len(kept) |-> kept[k].text]

\* [" ".join(tokens[i:i+n]) for i in range(len(tokens)-n+1)]
NgramsOfLength(tokens, n) ==
    IF Len(tokens) < n THEN <<>>
    ELSE [i \in 1..(Len(tokens) - n + 1) |->
             Join(SubSeq(tokens, i, i + n - 1), <<" ">>)]

\* chain.from_iterable(... for n in range(1, 4))
Ngrams(tokens) ==
    NgramsOfLength(tokens, 1) \o NgramsOfLength(tokens, 2) \o NgramsOfLength(tokens, 3)

\* cosine_scores[i][j]: the similarity of an n-gram and a skill, a function of
\* the two strings; the pairs `scores` does not name are below the threshold
Score(ngram, skill) ==
    IF <<ngram, skill>> \in DOMAIN scores THEN scores[<<ngram, skill>>]
    ELSE SimilarityThreshold - 1

\* the test is `score >= 0.7`
IsMatchMutant(score) == score >= SimilarityThreshold

\* if score > 0.7
IsMatch(score) == score > SimilarityThreshold

\* the two loops: matched_skills.add(SKILLS_DB[j])
MatchedSkills(ngrams, db) ==
    {db[j] : j \in {j \in 1..Len(db) :
                       \E i \in 1..Len(ngrams) : IsMatch(Score(ngrams[i], db[j]))}}

\* str.title(): a letter is upper case after a non-letter, lower case after a letter
Title(s) ==
    [k \in 1..Len(s) |->
        IF k > 1 /\ IsLetter(s[k - 1]) THEN LowerChar(s[k]) ELSE UpperChar(s[k])]

\* the characters of the model in code point order
CodePointOrder ==
    Chars(" %&+-./0123456789:@ABCDEFGHIJKLMNOPQRSTUVWXYZ_abcdefghijklmnopqrstuvwxyz|")

\* a < b for two strings, as Python compares them
RECURSIVE StrLess(_, _)
StrLess(a, b) ==
    IF Len(b) = 0 THEN FALSE
    ELSE IF Len(a) = 0 THEN TRUE
    ELSE IF a[1] = b[1] THEN StrLess(Tail(a), Tail(b))
    ELSE IndexIn(CodePointOrder, a[1]) < IndexIn(CodePointOrder, b[1])

\* sorted(set)
RECURSIVE Sorted(_)
Sorted(S) ==
    IF S = {} THEN <<>>
    ELSE LET m == CHOOSE x \in S : \A y \in S \ {x} : StrLess(x, y)
         IN  <<m>> \o Sorted(S \ {m})

\* main.py: list(matched_skills), a list in no particular order, here a set;
\* nlp_parser.py: sorted(set([s.strip().title() for s in matched_skills]))
SkillsResult(v, matched) ==
    IF v = "main" THEN matched
    ELSE Sorted({Title(Strip(sk)) : sk \in matched})

\* return []
NoSkillsResult(v) == IF v = "main" THEN {} ELSE <<>>

MaxTokens == 3

TokenKinds ==
    {Token(Chars("go"), FALSE, FALSE), Token(Chars("sql"), FALSE, FALSE),
     Token(Chars("the"), TRUE, FALSE), Token(Chars("."), FALSE, TRUE)}

Vocabularies ==
    {<<>>, <<Chars("Go")>>, <<Chars("Go"), Chars("SQL")>>,
     <<Chars("sql "), Chars("SQL"), Chars("Go")>>}

\* the pairs whose similarity is at or above the threshold in some run
ScoredPairs ==
    {<<Chars("go"), Chars("Go")>>, <<Chars("go sql"), Chars("SQL")>>,
     <<Chars("sql go sql"), Chars("sql ")>>}

InitSkills ==
    /\ pc = "start"
    /\ variant \in {"main", "nlp"}
    /\ text \in SeqsUpTo(TokenKinds, MaxTokens)
    /\ SKILLS_DB \in Vocabularies
    /\ scores \in [ScoredPairs -> {SimilarityThreshold, SimilarityThreshold + 1}]
    /\ out = <<>>
    /\ NoPdf /\ NoFolder

\* if not SKILLS_DB ... or SKILL_EMBEDDINGS.numel() == 0: return []
ReturnNoSkills ==
    /\ pc = "start"
    /\ SKILLS_DB = <<>>
    /\ out' = NoSkillsResult(variant)
    /\ pc' = "done"
    /\ UNCHANGED <<variant, text, pages, pageIdx, calls, listing, fileIdx,
                   parsed_data, SKILLS_DB, scores>>

\* doc = nlp(text)
TokenizeText ==
    /\ pc = "start"
    /\ SKILLS_DB /= <<>>
    /\ calls' = Append(calls, <<"nlp", Len(text), 0>>)
    /\ pc' = "tokenized"
    /\ UNCHANGED <<variant, text, out, pages, pageIdx, listing, fileIdx,
                   parsed_data, SKILLS_DB, scores>>

\* token_embeddings = embedder.encode(ngrams, ...)
EncodeNgrams ==
    /\ pc = "tokenized"
    /\ calls' = Append(calls, <<"encode", Len(Ngrams(ContentTokens(text))), 0>>)
    /\ pc' = "encoded"
    /\ UNCHANGED <<variant, text, out, pages, pageIdx, listing, fileIdx,
                   parsed_data, SKILLS_DB, scores>>

\* cosine_scores = ...; the loops; the return
MatchSkills ==
    /\ pc = "encoded"
    /\ out' = SkillsResult(variant,
                  MatchedSkills(Ngrams(ContentTokens(text)), SKILLS_DB))
    /\ pc' = "done"
    /\ UNCHANGED <<variant, text, pages, pageIdx, calls, listing, fileIdx,
                   parsed_data, SKILLS_DB, scores>>

NextSkills == ReturnNoSkills \/ TokenizeText \/ EncodeNgrams \/ MatchSkills

SpecSkills == InitSkills /\ [][NextSkills]_vars

\* the vocabulary entries some contiguous n-gram (n in 1..3) of the content
\* tokens is more than 0.7 similar to
SimilarEntries ==
    LET toks == ContentTokens(text)
    IN  {v \in Range(SKILLS_DB) :
            \E n \in 1..3 : \E i \in 1..Len(toks) :
                /\ i + n - 1 <= Len(toks)
                /\ Score(Join(SubSeq(toks, i, i + n - 1), <<" ">>), v) > 70}

\* the strings extract_skills returned
ReturnedSkills == IF variant = "main" THEN out ELSE Range(out)

\* C9 as stated: the returned strings are exactly the vocabulary entries
\* similar to some n-gram, each an entry of the vocabulary; for an empty
\* vocabulary the result is empty and the encoder is not invoked.
C9_ReturnsVocabularyEntries ==
    pc = "done" =>
        /\ ReturnedSkills = SimilarEntries
        /\ ReturnedSkills \subseteq Range(SKILLS_DB)
        /\ SKILLS_DB = <<>> => ReturnedSkills = {} /\ calls = <<>>

\* C9 amended: main.py returns exactly the vocabulary entries similar to some
\* n-gram; nlp_parser.py returns their strip().title() forms, sorted and
\* without duplicates, which need not be vocabulary entries; for an empty
\* vocabulary the result is empty and neither the tokenizer nor the encoder
\* is invoked by the call.
C9_ReturnsSimilarEntries ==
    pc = "done" =>
        /\ variant = "main" => out = SimilarEntries
        /\ variant = "nlp" =>
              /\ Range(out) = {Title(Strip(v)) : v \in SimilarEntries}
              /\ \A k \in 1..(Len(out) - 1) : StrLess(out[k], out[k + 1])
        /\ SKILLS_DB = <<>> => ReturnedSkills = {} /\ calls = <<>>
        /\ SKILLS_DB /= <<>> =>
              Len(SelectSeq(calls, LAMBDA c : c[1] = "encode")) = 1

\* a trigram matched, the pair exactly at the threshold did not, and two
\* vocabulary entries were returned as one title-cased string
C9_Witness ==
    /\ pc = "done"
    /\ variant = "nlp"
    /\ SimilarEntries = {Chars("sql "), Chars("SQL")}
    /\ Chars("Go") \in Range(SKILLS_DB)
    /\ Score(Chars("go"), Chars("Go")) = 70
    /\ out = <<Chars("Sql")>>

----------------------------------------------------------------------------
(* nlp_parser.py: parse_experience_block *)

\* the two characters of the source outside ASCII, each one character here
EnDash == "U+2013"

Bullet == "U+2022"

\* an optional value: None, or the value
None == <<>>

Some(x) == <<x>>

\* [A-Za-z]{3}\s\d{4} at p
MonthYearAt(s, p) ==
    /\ p + 7 <= Len(s)
    /\ \A k \in 0..2 : IsLetter(s[p + k])
    /\ IsSpace(s[p + 3])
    /\ \A k \in 4..7 : IsDigit(s[p + k])

\* \d{4} at p
YearAt(s, p) == p + 3 <= Len(s) /\ \A k \in 0..3 : IsDigit(s[p + k])

\* ([A-Za-z]{3}\s\d{4}|\d{4}|Present) tried at p: the last position, 0 if none
DateSideEnd(s, p) ==
    IF p > Len(s) THEN 0
    ELSE IF MonthYearAt(s, p) THEN p + 7
    ELSE IF YearAt(s, p) THEN p + 3
    ELSE IF OccursAt(s, Chars("Present"), p) THEN p + 6
    ELSE 0

\* side \s*[-–]\s* side tried at p: <<first side, second side>> as positions,
\* <<>> if there is no match
DateRangeAt(s, p) ==
    LET e1 == DateSideEnd(s, p)
        d == RunEnd(s, e1 + 1, SpaceSet) + 1
        q == RunEnd(s, d + 1, SpaceSet) + 1
        e2 == DateSideEnd(s, q)
    IN  IF e1 > 0 /\ d <= Len(s) /\ s[d] \in {"-", EnDash} /\ e2 > 0
        THEN <<<<p, e1>>, <<q, e2>>>>
        ELSE <<>>

\* dates[0] of re.findall, <<>> when dates is empty
RECURSIVE FirstDateRange(_, _)
FirstDateRange(s, p) ==
    IF p > Len(s) THEN <<>>
    ELSE IF DateRangeAt(s, p) /= <<>>
         THEN LET m == DateRangeAt(s, p)
              IN  <<SubSeq(s, m[1][1], m[1][2]), SubSeq(s, m[2][1], m[2][2])>>
         ELSE FirstDateRange(s, p + 1)

MonthNames ==
    {Chars("jan"), Chars("feb"), Chars("mar"), Chars("apr"), Chars("may"),
     Chars("jun"), Chars("jul"), Chars("aug"), Chars("sep"), Chars("oct"),
     Chars("nov"), Chars("dec")}

\* the year of a side, its last four characters
YearOf(side) == SubSeq(side, Len(side) - 3, Len(side))

\* whether the side is a date for certain: a year, or a month name and a year
IsPlainDate(side) ==
    /\ YearOf(side) /= Chars("0000")
    /\ Len(side) > 4 => Lower(SubSeq(side, 1, 3)) \in MonthNames

\* str(dateparser.parse(side).date().year) if side != "Present" else "Present".
\* dateparser is a collaborator: for a side that is no plain date it answers a
\* date (lenient) or None, and None.date() raises.
ResolveSide(side, lenient) ==
    IF side = Chars("Present") THEN Some(side)
    ELSE IF IsPlainDate(side) \/ lenient THEN Some(YearOf(side))
    ELSE Some(Chars("raise"))

SideRaises(side, lenient) ==
    side /= Chars("Present") /\ ~IsPlainDate(side) /\ ~lenient

\* lines[1:] ... if l.strip()
DescriptionLines(lines) == SelectSeq(SubSeq(lines, 2, Len(lines)), LAMBDA l : Strip(l) /= <<>>)

\* [l.strip("-*• ").strip() for l in lines[1:] if l.strip()]
Description(lines) ==
    LET kept == DescriptionLines(lines)
    IN  [k \in 1..Len(kept) |-> Strip(StripChars(kept[k], {"-", "*", Bullet, " "}))]

\* parse_experience_block(block): the dict it returns, raised TRUE when
\* resolving a side of the date range raises instead
parse_experience_block(block, lenient) ==
    LET dates == FirstDateRange(block, 1)
        lines == Split(block, "\n")
        role_line == lines[1]
        parts == Split(role_line, ",")
        has_comma == Len(parts) > 1
    IN  [raised |-> dates /= <<>> /\ (SideRaises(dates[1], lenient) \/ SideRaises(dates[2], lenient)),
         start_date |-> IF dates /= <<>> THEN ResolveSide(dates[1], lenient) ELSE None,
         end_date |-> IF dates /= <<>> THEN ResolveSide(dates[2], lenient) ELSE None,
         role |-> IF has_comma THEN Some(Strip(parts[1])) ELSE None,
         company |-> IF has_comma THEN Some(Strip(parts[2])) ELSE None,
         description |-> Description(lines)]

MaxBlockLines == 3

ExampleBlock == Chars("Engineer, Acme\nJan 2020 - Present\n- built X")

BlockLines ==
    {Chars("Engineer, Acme"), Chars("Jan 2020 - Present"), Chars("- built X"),
     Chars("2019 ") \o <<EnDash>> \o Chars(" 2021"), Chars("Xyz 2020-Present"),
     Chars(" "), <<Bullet>> \o Chars(" led, team B, C *")}

Blocks == Pieced(BlockLines, <<"\n">>, MaxBlockLines)

InitExperience ==
    /\ pc = "start"
    /\ variant = "nlp"
    /\ text \in Blocks
    /\ out = <<>>
    /\ NoPdf /\ NoFolder /\ NoSkills

ParseBlock ==
    /\ pc = "start"
    /\ \E lenient \in BOOLEAN : out' = parse_experience_block(text, lenient)
    /\ pc' = "done"
    /\ UNCHANGED <<variant, text, pages, pageIdx, calls, listing, fileIdx,
                   parsed_data, SKILLS_DB, scores>>

NextExperience == ParseBlock

SpecExperience == InitExperience /\ [][NextExperience]_vars

\* C3: the first line is the role/company line, the date range is resolved,
\* and the description holds only the remaining bullet lines, not the line of
\* the date range: the block of the example yields role "Engineer", company
\* "Acme", end period "Present" and the one description element "built X".
C3_DescriptionHoldsOnlyBullets ==
    (pc = "done" /\ ~out.raised) =>
        /\ \A k \in 1..Len(out.description) :
              FirstDateRange(out.description[k], 1) = <<>>
        /\ text = ExampleBlock =>
              /\ out.role = Some(Chars("Engineer"))
              /\ out.company = Some(Chars("Acme"))
              /\ out.end_date = Some(Chars("Present"))
              /\ out.description = <<Chars("built X")>>

----------------------------------------------------------------------------
(* parse_resume and parse_resumes_in_folder *)

\* extract_text_from_pdf as one function of the pages
RECURSIVE RecoverPages(_, _, _, _)
RecoverPages(v, pp, i, acc) ==
    IF i > Len(pp) THEN Strip(acc)
    ELSE RecoverPages(v, pp, i + 1,
             acc \o (IF HasNativeText(pp[i]) THEN pp[i].native ELSE pp[i].ocr)
                 \o PageSuffix(v))

\* extract_text_from_image(path) if is_image else extract_text_from_pdf(path)
RecoverText(v, is_image, doc) ==
    IF is_image THEN doc.ocr ELSE RecoverPages(v, doc.pages, 1, <<>>)

\* parse_resume(path, is_image): the fields of the record that are functions
\* of the recovered text alone (name and skills are answers of the NER model
\* and of the encoder)
parse_resume(v, is_image, doc) ==
    LET normalized == Normalize(v, RecoverText(v, is_image, doc))
    IN  [is_image |-> is_image,
         contacts |-> extract_contact_info(v, normalized),
         links |-> extract_links(v, normalized),
         raw_text |-> normalized]

\* ("pdf", "png", "jpg", "jpeg")
SupportedExts == {Chars("pdf"), Chars("png"), Chars("jpg"), Chars("jpeg")}

\* ext = file_name.lower().split(".")[-1]
ExtOf(file_name) ==
    LET parts == Split(Lower(file_name), ".")
    IN  parts[Len(parts)]

MaxFiles == 3

FileNames ==
    {Chars("cv.pdf"), Chars("notes.txt"), Chars("SCAN.PNG"), Chars("pic.jpg"),
     Chars("photo.jpeg"), Chars("cv.pdf.bak"), Chars("pdf")}

\* what the file of that name holds: a PDF of two pages, the second scanned,
\* or an image
DocOf(file_name) ==
    [pages |-> <<Page(FALSE, file_name \o Chars("\n\nEXPERIENCE\nEngineer, Acme "), <<>>),
                 Page(FALSE, <<>>, Chars("+1 555-123-4567 https://github.com/jane"))>>,
     ocr |-> file_name \o Chars("\n jane.doe@example.com \n")]

\* the listings: the names of a folder are distinct, their order is the
\* file system's
Listings ==
    {l \in SeqsUpTo(FileNames, MaxFiles) :
        \A i, j \in 1..Len(l) : i /= j => l[i] /= l[j]}

InitFolder ==
    /\ pc = "start"
    /\ variant \in {"main", "nlp"}
    /\ listing \in Listings
    /\ fileIdx = 0
    /\ parsed_data = EmptyDict
    /\ text = <<>>
    /\ out = <<>>
    /\ NoPdf /\ NoSkills

\* parsed_data = {}; for file_name in os.listdir(folder_path):
StartFolder ==
    /\ pc = "start"
    /\ parsed_data' = EmptyDict
    /\ fileIdx' = 1
    /\ pc' = "loop"
    /\ UNCHANGED <<variant, text, out, pages, pageIdx, calls, listing,
                   SKILLS_DB, scores>>

\* ext not in ("pdf", "png", "jpg", "jpeg"): the entry is passed over
SkipEntry ==
    /\ pc = "loop"
    /\ fileIdx <= Len(listing)
    /\ ExtOf(listing[fileIdx]) \notin SupportedExts
    /\ fileIdx' = fileIdx + 1
    /\ UNCHANGED <<pc, variant, text, out, pages, pageIdx, calls, listing,
                   parsed_data, SKILLS_DB, scores>>

\* parsed_data[file_name] = parse_resume(path, is_image=(ext != "pdf"))
ParseEntry ==
    /\ pc = "loop"
    /\ fileIdx <= Len(listing)
    /\ ExtOf(listing[fileIdx]) \in SupportedExts
    /\ calls' = Append(calls, <<"parse_resume", listing[fileIdx]>>)
    /\ parsed_data' =
          DictPut(parsed_data, listing[fileIdx],
                  parse_resume(variant, ExtOf(listing[fileIdx]) /= Chars("pdf"),
                               DocOf(listing[fileIdx])))
    /\ fileIdx' = fileIdx + 1
    /\ UNCHANGED <<pc, variant, text, out, pages, pageIdx, listing,
                   SKILLS_DB, scores>>

\* the collaborators of parse_resume that can raise: text recovery (pdfplumber,
\* pytesseract), the NER model of extract_name, the encoder of extract_skills
FailureStages == {"text recovery", "NER", "embedding"}

\* an except clause around parse_resume that passes over the document
FailEntryCaught ==
    /\ pc = "loop"
    /\ fileIdx <= Len(listing)
    /\ ExtOf(listing[fileIdx]) \in SupportedExts
    /\ calls' = Append(calls, <<"parse_resume", listing[fileIdx]>>)
    /\ fileIdx' = fileIdx + 1
    /\ UNCHANGED <<pc, variant, text, out, pages, pageIdx, listing,
                   parsed_data, SKILLS_DB, scores>>

\* parse_resume raises (text recovery, NER or the encoder): nothing catches it,
\* the assignment to parsed_data[file_name] does not happen and the exception
\* leaves parse_resumes_in_folder
FailEntry ==
    /\ pc = "loop"
    /\ fileIdx <= Len(listing)
    /\ ExtOf(listing[fileIdx]) \in SupportedExts
    /\ \E stage \in FailureStages :
          out' = [raised |-> stage]
    /\ calls' = Append(calls, <<"parse_resume", listing[fileIdx]>>)
    /\ pc' = "raised"
    /\ UNCHANGED <<variant, text, pages, pageIdx, listing, fileIdx,
                   parsed_data, SKILLS_DB, scores>>

\* return parsed_data
ReturnParsed ==
    /\ pc = "loop"
    /\ fileIdx > Len(listing)
    /\ out' = parsed_data
    /\ pc' = "returned"
    /\ UNCHANGED <<variant, text, pages, pageIdx, calls, listing, fileIdx,
                   parsed_data, SKILLS_DB, scores>>

\* "parsed_resumes.json"
OutputFile == Chars("parsed_resumes.json")

\* the script: all_resumes = parse_resumes_in_folder(folder);
\* with open("parsed_resumes.json", "w") as f: json.dump(all_resumes, f)
WriteOutput ==
    /\ pc = "returned"
    /\ calls' = calls \o <<<<"open", OutputFile>>, <<"json.dump", OutputFile>>>>
    /\ pc' = "written"
    /\ UNCHANGED <<variant, text, out, pages, pageIdx, listing, fileIdx,
                   parsed_data, SKILLS_DB, scores>>

NextFolder ==
    StartFolder \/ SkipEntry \/ ParseEntry \/ FailEntry \/ ReturnParsed \/ WriteOutput

SpecFolder == InitFolder /\ [][NextFolder]_vars

\* whether s ends with suffix
EndsWith(s, suffix) ==
    Len(s) >= Len(suffix) /\ SubSeq(s, Len(s) - Len(suffix) + 1, Len(s)) = suffix

\* the name has one of the extensions .pdf, .png, .jpg, .jpeg, in any case
HasSupportedExtension(file_name) ==
    \E e \in SupportedExts : EndsWith(Lower(file_name), <<".">> \o e)

\* C10: when no document fails, the keys of the returned map are exactly the
\* folder entries with a supported extension: a folder with one .txt file and
\* one .pdf file yields the one entry keyed by the .pdf file's name.
C10_KeysAreSupportedFiles ==
    pc = "returned" =>
        DOMAIN out = {listing[i] : i \in {i \in 1..Len(listing) :
                                            HasSupportedExtension(listing[i])}}

----------------------------------------------------------------------------
(* a document that fails *)

\* the file names handed to parse_resume, in the order of the calls
RECURSIVE ProcessedFrom(_)
ProcessedFrom(log) ==
    IF log = <<>> THEN <<>>
    ELSE (IF Head(log)[1] = "parse_resume" THEN <<Head(log)[2]>> ELSE <<>>)
             \o ProcessedFrom(Tail(log))

\* the first n entries of the listing that pass the extension filter, in the
\* listing's order
SupportedUpTo(n) ==
    SelectSeq(SubSeq(listing, 1, n), LAMBDA f : ExtOf(f) \in SupportedExts)

\* whether the output file was opened or written
OutputTouched ==
    \E k \in 1..Len(calls) : calls[k][1] \in {"open", "json.dump"}

\* C11: the documents are processed strictly one after another, in the order
\* of the listing; when one fails the pass stops at that document: it is the
\* last one processed, the caller gets the failure and no result map, the
\* records gathered so far are not returned, the output file is not written,
\* and nothing happens afterwards. A pass that returns has a record for every
\* document it processed.
C11_FailureAbortsFolderPass ==
    /\ [](/\ pc \in {"loop", "returned", "written"} =>
                ProcessedFrom(calls) = SupportedUpTo(fileIdx - 1)
          /\ pc = "raised" =>
                /\ fileIdx \in 1..Len(listing)
                /\ ProcessedFrom(calls) = SupportedUpTo(fileIdx)
                /\ calls[Len(calls)] = <<"parse_resume", listing[fileIdx]>>
                /\ listing[fileIdx] \notin DOMAIN parsed_data
                /\ out \in [raised : FailureStages]
                /\ ~OutputTouched
          /\ pc \in {"returned", "written"} =>
                /\ out = parsed_data
                /\ DOMAIN out = Range(ProcessedFrom(calls)))
    /\ [][pc /= "raised"]_vars

\* the second of three supported documents fails after the first was parsed
C11_Witness ==
    /\ pc = "raised"
    /\ Len(listing) = 3
    /\ \A i \in 1..3 : ExtOf(listing[i]) \in SupportedExts
    /\ fileIdx = 2
    /\ DOMAIN parsed_data = {listing[1]}
    /\ out.raised = "embedding"

----------------------------------------------------------------------------
(* extract_experience and extract_education *)

\* the last position of a match of \n\s*\n that starts at p, 0 if there is
\* none: \s* runs as far as it can and gives back down to the last line break
BlankBreakEnd(s, p) ==
    IF p > Len(s) \/ s[p] /= "\n" THEN 0
    ELSE LET r == RunEnd(s, p + 1, SpaceSet)
             breaks == {q \in (p + 1)..r : s[q] = "\n"}
         IN  IF breaks = {} THEN 0 ELSE Max(breaks)

\* re.split(r"\n\s*\n", s) from position p on; the piece in hand begins at
\* `from`
RECURSIVE SplitBlocksFrom(_, _, _)
SplitBlocksFrom(s, p, from) ==
    IF p > Len(s) THEN <<SubSeq(s, from, Len(s))>>
    ELSE LET e == BlankBreakEnd(s, p)
         IN  IF e > 0
             THEN <<SubSeq(s, from, p - 1)>> \o SplitBlocksFrom(s, e + 1, e + 1)
             ELSE SplitBlocksFrom(s, p + 1, from)

\* re.split(r"\n\s*\n", s)
SplitBlocks(s) == SplitBlocksFrom(s, 1, 1)

\* sections.get(heading, "")
SectionOf(sections, heading) ==
    IF heading \in DOMAIN sections THEN sections[heading] ELSE <<>>

\* nlp_parser.py extract_experience: [parse_experience_block(b) for b in
\* blocks if b.strip()]; the call raises when one of the blocks does
extract_experience_nlp(s, lenient) ==
    LET exp_text == SectionOf(split_sections(s), Chars("EXPERIENCE"))
        blocks == SelectSeq(SplitBlocks(exp_text), LAMBDA b : Strip(b) /= <<>>)
        experiences == [k \in 1..Len(blocks) |->
                            parse_experience_block(blocks[k], lenient)]
    IN  [raised |-> \E k \in 1..Len(blocks) : experiences[k].raised,
         value |-> experiences]

\* the alternatives of the degree pattern in the order the pattern tries them,
\* in lower case (the pattern is matched with re.IGNORECASE); main.py has
\* neither the optional dot nor M.Eng
DegreeNames(v) ==
    IF v = "main"
    THEN <<Chars("bachelor"), Chars("master"), Chars("phd"), Chars("b.sc"),
           Chars("m.sc"), Chars("b.eng"), Chars("mba")>>
    ELSE <<Chars("b.sc"), Chars("bsc"), Chars("m.sc"), Chars("msc"),
           Chars("b.eng"), Chars("beng"), Chars("m.eng"), Chars("meng"),
           Chars("bachelor"), Chars("master"), Chars("phd"), Chars("mba")>>

\* the length of the degree name the pattern matches at p, 0 if none
DegreeLenAt(v, s, p) ==
    LET names == DegreeNames(v)
        hits == {k \in 1..Len(names) : OccursAt(Lower(s), names[k], p)}
    IN  IF hits = {} THEN 0
        ELSE Len(names[CHOOSE k \in hits : \A h \in hits : k <= h])

\* re.findall of the degree pattern from p on: the group of each match, the
\* search resuming behind the [^,\n]* that follows the name
RECURSIVE FindDegrees(_, _, _)
FindDegrees(v, s, p) ==
    IF p > Len(s) THEN <<>>
    ELSE LET n == DegreeLenAt(v, s, p)
         IN  IF n > 0
             THEN <<SubSeq(s, p, p + n - 1)>>
                      \o FindDegrees(v, s,
                             RunEnd(s, p + n, Range(s) \ {",", "\n"}) + 1)
             ELSE FindDegrees(v, s, p + 1)

\* the loop of nlp_parser.py extract_education over the lines of the section
RECURSIVE EducationOfLines(_)
EducationOfLines(lines) ==
    IF lines = <<>> THEN <<>>
    ELSE LET degree_match == FindDegrees("nlp", Head(lines), 1)
         IN  (IF degree_match /= <<>>
              THEN <<[degree |-> Strip(degree_match[1]),
                      institution |-> Strip(Head(lines))]>>
              ELSE <<>>) \o EducationOfLines(Tail(lines))

\* nlp_parser.py extract_education
extract_education_nlp(s) ==
    EducationOfLines(Split(SectionOf(split_sections(s), Chars("EDUCATION")), "\n"))

----------------------------------------------------------------------------
(* main.py: extract_section and the extractors built on it *)

\* the length of the longest common run of a[i..ahi] and b[j..bhi] that
\* begins at i and j
RECURSIVE CommonLen(_, _, _, _, _, _)
CommonLen(a, i, ahi, b, j, bhi) ==
    IF i > ahi \/ j > bhi \/ a[i] /= b[j] THEN 0
    ELSE 1 + CommonLen(a, i + 1, ahi, b, j + 1, bhi)

\* difflib.SequenceMatcher.find_longest_match(alo, ahi, blo, bhi) without
\* junk: <<i, j, k>>, the longest block a[i..i+k-1] = b[j..j+k-1], of those
\* the one that starts earliest in a, and of those the earliest in b;
\* k = 0 when the ranges share no character
LongestMatch(a, alo, ahi, b, blo, bhi) ==
    LET starts == {ij \in (alo..ahi) \X (blo..bhi) : a[ij[1]] = b[ij[2]]}
        size(ij) == CommonLen(a, ij[1], ahi, b, ij[2], bhi)
    IN  IF starts = {} THEN <<alo, blo, 0>>
        ELSE LET best == Max({size(ij) : ij \in starts})
                 longest == {ij \in starts : size(ij) = best}
                 first == CHOOSE ij \in longest :
                              \A other \in longest :
                                  \/ ij[1] < other[1]
                                  \/ ij[1] = other[1] /\ ij[2] <= other[2]
             IN  <<first[1], first[2], best>>

\* the sum of the sizes of get_matching_blocks(): the longest match, then the
\* same to its left and to its right
RECURSIVE MatchSize(_, _, _, _, _, _)
MatchSize(a, alo, ahi, b, blo, bhi) ==
    IF alo > ahi \/ blo > bhi THEN 0
    ELSE LET m == LongestMatch(a, alo, ahi, b, blo, bhi)
         IN  IF m[3] = 0 THEN 0
             ELSE m[3] + MatchSize(a, alo, m[1] - 1, b, blo, m[2] - 1)
                       + MatchSize(a, m[1] + m[3], ahi, b, m[2] + m[3], bhi)

\* cutoff=0.8, in tenths
Cutoff == 8

\* difflib.get_close_matches(k, [norm], cutoff=0.8) is not empty:
\* ratio() = 2.0 * matches / (len(norm) + len(k)) >= 0.8; the two quick
\* ratios tested before it are upper bounds of ratio()
IsCloseMatch(k, norm) ==
    20 * MatchSize(norm, 1, Len(norm), k, 1, Len(k)) >= Cutoff * (Len(norm) + Len(k))

\* re.match(r"^[A-Z][A-Z\s]+$", line) for a line without line break
IsUpperLine(line) ==
    /\ Len(line) >= 2
    /\ IsUpper(line[1])
    /\ \A k \in 2..Len(line) : line[k] \in UpperSet \cup SpaceSet

\* the loop of extract_section from line i on; start None is 0
RECURSIVE SectionLoop(_, _, _, _, _)
SectionLoop(lines, keywords, i, start, section_lines) ==
    IF i > Len(lines) THEN section_lines
    ELSE LET line == lines[i]
             norm == Lower(Strip(line))
         IN  IF \E k \in Range(keywords) : IsCloseMatch(k, norm)
             THEN SectionLoop(lines, keywords, i + 1, i, section_lines)
             ELSE IF start /= 0
             THEN IF Strip(line) = <<>> \/ IsUpperLine(line)
                  THEN section_lines
                  ELSE SectionLoop(lines, keywords, i + 1, start,
                                   Append(section_lines, line))
             ELSE SectionLoop(lines, keywords, i + 1, start, section_lines)

\* main.py extract_section
extract_section(s, keywords) ==
    Strip(Join(SectionLoop(Split(s, "\n"), keywords, 1, 0, <<>>), <<" ">>))

\* \w
IsWordChar(c) == IsLetter(c) \/ IsDigit(c) \/ c = "_"

\* \b before position p
AtWordBoundary(s, p) ==
    (p - 1 >= 1 /\ IsWordChar(s[p - 1])) /= (p <= Len(s) /\ IsWordChar(s[p]))

\* \d{4} at p
FourDigitsAt(s, p) == p + 3 <= Len(s) /\ \A k \in 0..3 : IsDigit(s[p + k])

\* Jan|Feb|Mar|Apr|May|Jun|Jul|Aug|Sep|Oct|Nov|Dec
MonthAbbreviations ==
    {Chars("Jan"), Chars("Feb"), Chars("Mar"), Chars("Apr"), Chars("May"),
     Chars("Jun"), Chars("Jul"), Chars("Aug"), Chars("Sep"), Chars("Oct"),
     Chars("Nov"), Chars("Dec")}

\* the last position of \s*\d{4}\b from q on, 0 if it does not match
SpacedYearEnd(s, q) ==
    LET r == RunEnd(s, q, SpaceSet)
    IN  IF FourDigitsAt(s, r + 1) /\ AtWordBoundary(s, r + 5) THEN r + 4 ELSE 0

\* the last position of a match at p of
\* (\b(?:Jan|...|Dec)?\s*\d{4}\b|\d{2}/\d{4}|\d{4}), 0 if there is none
DateMatchEnd(s, p) ==
    LET with_month ==
            IF \E m \in MonthAbbreviations : OccursAt(s, m, p)
            THEN SpacedYearEnd(s, p + 3) ELSE 0
        first == IF ~AtWordBoundary(s, p) THEN 0
                 ELSE IF with_month > 0 THEN with_month
                 ELSE SpacedYearEnd(s, p)
        second == IF /\ p + 6 <= Len(s)
                     /\ IsDigit(s[p]) /\ IsDigit(s[p + 1]) /\ s[p + 2] = "/"
                     /\ FourDigitsAt(s, p + 3)
                  THEN p + 6 ELSE 0
        third == IF FourDigitsAt(s, p) THEN p + 3 ELSE 0
    IN  IF first > 0 THEN first ELSE IF second > 0 THEN second ELSE third

\* re.findall of the date pattern from p on
RECURSIVE FindDates(_, _)
FindDates(s, p) ==
    IF p > Len(s) THEN <<>>
    ELSE LET e == DateMatchEnd(s, p)
         IN  IF e > 0 THEN <<SubSeq(s, p, e)>> \o FindDates(s, e + 1)
             ELSE FindDates(s, p + 1)

ExperienceKeywords == <<Chars("experience"), Chars("employment"), Chars("work history")>>

EducationKeywords == <<Chars("education"), Chars("academics"), Chars("qualification")>>

\* main.py extract_experience: one entry for every piece re.split gives, the
\* empty piece of an empty section included
extract_experience_main(s) ==
    LET exp_text == extract_section(s, ExperienceKeywords)
        exp_blocks == SplitBlocks(exp_text)
    IN  [k \in 1..Len(exp_blocks) |->
            [text |-> Strip(exp_blocks[k]), dates |-> FindDates(exp_blocks[k], 1)]]

\* main.py extract_education
extract_education_main(s) ==
    LET edu_text == extract_section(s, EducationKeywords)
    IN  [raw |-> edu_text, degrees |-> FindDegrees("main", edu_text, 1)]

\* extract_experience of either file; main.py calls no collaborator that can
\* answer None
extract_experience(v, s, lenient) ==
    IF v = "main" THEN [raised |-> FALSE, value |-> extract_experience_main(s)]
    ELSE extract_experience_nlp(s, lenient)

extract_education(v, s) ==
    IF v = "main" THEN extract_education_main(s) ELSE extract_education_nlp(s)

----------------------------------------------------------------------------
(* the field extractors applied to a text *)

MaxExtractLines == 3

ExtractLines ==
    {Chars("EXPERIENCE"), Chars("Work Experience"), Chars("EDUCATION"),
     Chars("Dev, Acme"), Chars("Xyz 2020 - Present"), Chars("Jan 2019 - 2021"),
     Chars("BSc CS, MIT"), Chars("a@b.co http://x.io"), <<>>}

ExtractTexts == Pieced(ExtractLines, <<"\n">>, MaxExtractLines)

InitExtract ==
    /\ pc = "start"
    /\ variant \in {"main", "nlp"}
    /\ text \in ExtractTexts
    /\ out = <<>>
    /\ NoPdf /\ NoFolder /\ NoSkills

\* the four extractors return
ExtractFields ==
    /\ pc = "start"
    /\ \E lenient \in BOOLEAN :
          LET experience == extract_experience(variant, text, lenient)
          IN  /\ ~experience.raised
              /\ out' = [contacts |-> extract_contact_info(variant, text),
                         links |-> extract_links(variant, text),
                         experience |-> experience.value,
                         education |-> extract_education(variant, text)]
    /\ pc' = "extracted"
    /\ UNCHANGED <<variant, text, pages, pageIdx, calls, listing, fileIdx,
                   parsed_data, SKILLS_DB, scores>>

\* dateparser.parse answers None for a side of a date range:
\* None.date() raises AttributeError out of extract_experience
ExtractRaises ==
    /\ pc = "start"
    /\ \E lenient \in BOOLEAN : extract_experience(variant, text, lenient).raised
    /\ out' = [raised |-> "AttributeError"]
    /\ pc' = "raised"
    /\ UNCHANGED <<variant, text, pages, pageIdx, calls, listing, fileIdx,
                   parsed_data, SKILLS_DB, scores>>

NextExtract == ExtractFields \/ ExtractRaises

SpecExtract == InitExtract /\ [][NextExtract]_vars

\* no line of the text names the section: none holds one of the words
NamesNoSection(s, words) ==
    \A k \in 1..Len(words) : ~Contains(Lower(s), words[k])

\* the education result is empty: no entry, or no text and no degree
IsEmptyEducation(v, education) ==
    IF v = "main" THEN education.raw = <<>> /\ education.degrees = <<>>
    ELSE education = <<>>

\* C12: no extractor raises, and each returns an empty result when its
\* patterns match nothing or its section is missing: no e-mail, phone or link
\* found gives empty lists, a text without experience section gives an empty
\* experience list, a text without education section an empty education
\* result, and a date range with a side that resolves to no year is no error.
C12_ExtractorsNeverRaise ==
    /\ pc /= "raised"
    /\ pc = "extracted" =>
          /\ FindSpans("email", text, 1, <<>>) = <<>> => out.contacts.email = <<>>
          /\ PhoneSpans(text) = <<>> => out.contacts.phone = <<>>
          /\ FindLinks(variant, text) = <<>> =>
                /\ out.links.linkedin = <<>>
                /\ out.links.github = <<>>
                /\ out.links.other = {}
          /\ NamesNoSection(text, ExperienceKeywords) => out.experience = <<>>
          /\ NamesNoSection(text, EducationKeywords) =>
                IsEmptyEducation(variant, out.education)

----------------------------------------------------------------------------
(* nlp_parser.py parse_resume from the recovered text on *)

MaxResumeLines == 4

ResumeLines ==
    {Chars("EXPERIENCE"), Chars("Dev, Acme"), Chars("QA, Beta"),
     Chars("Xyz 2020 - Present"), Chars(" "), <<>>}

\* what text recovery hands to parse_resume
ResumeTexts == Pieced(ResumeLines, <<"\n">>, MaxResumeLines)

InitResume ==
    /\ pc = "start"
    /\ variant = "nlp"
    /\ text \in ResumeTexts
    /\ out = <<>>
    /\ NoPdf /\ NoFolder /\ NoSkills

\* text = "\n".join([l.strip() for l in text.split("\n") if l.strip() != ""])
\* and the record of the extractors' results on that text (name and skills
\* are answers of the NER model and of the encoder)
ParseResume ==
    /\ pc = "start"
    /\ \E lenient \in BOOLEAN :
          LET normalized == Normalize(variant, text)
              experience == extract_experience(variant, normalized, lenient)
          IN  /\ ~experience.raised
              /\ out' = [contacts |-> extract_contact_info(variant, normalized),
                         links |-> extract_links(variant, normalized),
                         experience |-> experience.value,
                         education |-> extract_education(variant, normalized),
                         raw_text |-> normalized]
    /\ pc' = "parsed"
    /\ UNCHANGED <<variant, text, pages, pageIdx, calls, listing, fileIdx,
                   parsed_data, SKILLS_DB, scores>>

\* extract_experience raises on the normalized text
ParseResumeRaises ==
    /\ pc = "start"
    /\ \E lenient \in BOOLEAN :
          extract_experience(variant, Normalize(variant, text), lenient).raised
    /\ out' = [raised |-> "AttributeError"]
    /\ pc' = "raised"
    /\ UNCHANGED <<variant, text, pages, pageIdx, calls, listing, fileIdx,
                   parsed_data, SKILLS_DB, scores>>

NextResume == ParseResume \/ ParseResumeRaises

SpecResume == InitResume /\ [][NextResume]_vars

\* C13: the text nlp_parser.parse_resume hands to the extractors has no empty
\* line and no blank-line break, so the experience list of the record has at
\* most one entry, however many blocks the recovered text lists.
C13_AtMostOneExperience ==
    pc = "parsed" =>
        /\ \A p \in 1..Len(out.raw_text) : BlankBreakEnd(out.raw_text, p) = 0
        /\ out.raw_text /= <<>> =>
              \A line \in Range(Split(out.raw_text, "\n")) : line /= <<>>
        /\ Len(out.experience) <= 1

\* the recovered text lists two jobs separated by a blank line, which
\* extract_experience on that text would return as two entries; the record
\* has one entry, with the second job among the description lines of the first
C13_Witness ==
    /\ pc = "parsed"
    /\ Len(extract_experience_nlp(text, TRUE).value) = 2
    /\ Len(out.experience) = 1
    /\ Chars("QA, Beta") \in Range(out.experience[1].description)

====
